---- MODULE Spec2Model ----
(***************************************************************************)
(* A model of slurm_gpustat.py: the node-range parser (split_node_str,     *)
(* parse_node_names), the usage aggregation (gpu_usage) and the            *)
(* availability estimate (available).                                      *)
(*                                                                         *)
(* Python strings are sequences of one-character strings.  A call that can *)
(* raise returns a record whose err field names the exception ("none" when *)
(* the call returns normally).                                             *)
(***************************************************************************)
EXTENDS Integers, Sequences, FiniteSets, Bags, TLC

\* ------------------------------------------------------------------ bounds
\* longest node-range expression handed to the parser, counted in atoms
MaxAtoms == 5

\* most GPU resource specs in one node's inventory list
MaxSpecs == 2

\* largest count of one GPU resource spec
MaxInv == 2

\* largest GPU count of one job row
MaxAlloc == 2

\* most squeue rows read by one pass of gpu_usage
MaxRows == 2

\* ---------------------------------------------------------------- constants
\* SLURM states which indicate that the node is not available
INACCESSIBLE == {"drain*", "down*", "drng", "drain", "down"}

\* ------------------------------------------------------------- characters
Digits == <<"0", "1", "2", "3", "4", "5", "6", "7", "8", "9">>

DigitChars == {Digits[i] : i \in 1..10}

\* the pieces expressions are built from: one-character strings and "01"
Atoms == {<<"n">>, <<"0">>, <<"1">>, <<"[">>, <<"]">>, <<",">>, <<"-">>,
          <<" ">>, <<"0", "1">>}

VARIABLES
  node_str,      \* the expression last handed to the parser
  atoms,         \* how many atoms node_str was built from
  specs,         \* result of split_node_str(node_str)
  parsed,        \* result of parse_node_names(node_str)
  pc,            \* where available() is: "start", "rows", "apply", "done",
                 \* "raised"; "idle" while only the parser runs
  err,           \* the exception that ended available(), "none" otherwise
  errline,       \* the source line that raised it, 0 otherwise
  heap,          \* the GPU resource spec objects ({"type", "count"} dicts)
  resources,     \* the caller's inventory: node name -> list of spec objects
  states,        \* node name -> SLURM state
  res,           \* the accessible inventory built by available()
  usage,         \* (user, gpu type, node name) -> allocated count
  gpu_type,      \* the local gpu_type of gpu_usage
  nrows,         \* squeue rows read so far
  warnings,      \* (user, node name) pairs the pass printed a warning for
  pending,       \* usage entries available() has still to apply
  by_type,       \* resource_by_type(res) at the end of available()
  given,         \* the inventory as it was when available() was called
  rowlog,        \* what each (row, node) of the pass added to usage: a bag
  failed         \* the row that was being read when the exception was raised

parseVars == <<node_str, atoms, specs, parsed>>

availVars == <<pc, err, errline, heap, resources, states, res, usage, gpu_type,
               nrows, warnings, pending, by_type, given, rowlog, failed>>

vars == <<node_str, atoms, specs, parsed, pc, err, errline, heap, resources,
          states, res, usage, gpu_type, nrows, warnings, pending, by_type,
          given, rowlog, failed>>

\* --------------------------------------------------------- string helpers
Max(a, b) == IF a >= b THEN a ELSE b

Contains(s, c) == \E i \in 1..Len(s) : s[i] = c

\* str.index(c): 1-based position of the first occurrence, 0 when absent
IndexOf(s, c) ==
  IF Contains(s, c)
    THEN CHOOSE i \in 1..Len(s) : s[i] = c /\ \A j \in 1..(i - 1) : s[j] # c
    ELSE 0

\* str.strip(): drops leading and trailing whitespace
RECURSIVE Strip(_)
Strip(s) ==
  IF s = <<>> THEN s
  ELSE IF Head(s) = " " THEN Strip(Tail(s))
  ELSE IF s[Len(s)] = " " THEN Strip(SubSeq(s, 1, Len(s) - 1))
  ELSE s

\* str.split(sep): the pieces between the occurrences of sep; "" gives [""]
RECURSIVE StrSplit(_, _)
StrSplit(s, sep) ==
  LET k == IndexOf(s, sep) IN
    IF k = 0 THEN <<s>>
    ELSE <<SubSeq(s, 1, k - 1)>> \o StrSplit(SubSeq(s, k + 1, Len(s)), sep)

DigitVal(c) == CHOOSE d \in 0..9 : Digits[d + 1] = c

\* int(s): whitespace around the digits is ignored; anything else but a
\* non-empty digit string raises ValueError
RECURSIVE DigitsValue(_)
DigitsValue(s) ==
  IF s = <<>> THEN 0
  ELSE 10 * DigitsValue(SubSeq(s, 1, Len(s) - 1)) + DigitVal(s[Len(s)])

PyInt(s) ==
  LET t == Strip(s) IN
    IF t # <<>> /\ \A i \in 1..Len(t) : t[i] \in DigitChars
      THEN [err |-> "none", val |-> DigitsValue(t)]
      ELSE [err |-> "ValueError", val |-> 0]

\* str(x) for x >= 0
RECURSIVE PyStr(_)
PyStr(x) ==
  IF x < 10 THEN <<Digits[x + 1]>>
  ELSE PyStr(x \div 10) \o <<Digits[(x % 10) + 1]>>

\* str.zfill(width) of a digit string
ZfillNone(s, width) == s

RECURSIVE Zfill(_, _)
Zfill(s, width) == IF Len(s) >= width THEN s ELSE Zfill(<<"0">> \o s, width)

\* ----------------------------------------------------------- split_node_str
\* the loop of split_node_str over the characters from position ii (1-based)
RECURSIVE SplitScan(_, _, _, _)
SplitScan(s, ii, stack, breakpoints) ==
  IF ii > Len(s) THEN [err |-> "none", breakpoints |-> breakpoints]
  ELSE IF s[ii] = "[" THEN SplitScan(s, ii + 1, Append(stack, "["), breakpoints)
  ELSE IF s[ii] = "]" THEN
    IF stack = <<>> THEN [err |-> "IndexError", breakpoints |-> breakpoints]
    ELSE SplitScan(s, ii + 1, SubSeq(stack, 1, Len(stack) - 1), breakpoints)
  ELSE IF stack = <<>> /\ s[ii] = "," THEN
    \* Python's ii is 0-based: ii + 1 there is ii here
    SplitScan(s, ii + 1, stack, Append(breakpoints, ii))
  ELSE SplitScan(s, ii + 1, stack, breakpoints)

split_node_str(str) ==
  LET s == Strip(str)
      scan == SplitScan(s, 1, <<>>, <<0>>)
      bps == scan.breakpoints
      end == Len(s) + 1
      ends == Tail(bps) \o <<end>>
  IN IF scan.err # "none" THEN [err |-> scan.err, specs |-> <<>>]
     ELSE [err |-> "none",
           \* node_str[i: j - 1] with 0-based i, j
           specs |-> [k \in 1..Len(bps) |-> SubSeq(s, bps[k] + 1, ends[k] - 1)]]

\* --------------------------------------------------------- parse_node_names
\* the names of one subspec of a bracketed node_spec
SubNames(prefix, subspec) ==
  IF ~Contains(subspec, "-") THEN [err |-> "none", names |-> <<prefix \o subspec>>]
  ELSE
    LET parts == StrSplit(subspec, "-") IN
      IF Len(parts) # 2 THEN [err |-> "ValueError", names |-> <<>>]
      ELSE
        LET start == parts[1]
            end == parts[2]
            num_digits == Len(start)
            lo == PyInt(start)
            hi == PyInt(end)
        IN IF lo.err # "none" \/ hi.err # "none"
             THEN [err |-> "ValueError", names |-> <<>>]
             ELSE [err |-> "none",
                   names |-> [x \in 1..Max(hi.val + 1 - lo.val, 0) |->
                               prefix \o Zfill(PyStr(lo.val + x - 1), num_digits)]]

RECURSIVE SubspecsNames(_, _)
SubspecsNames(prefix, subspecs) ==
  IF subspecs = <<>> THEN [err |-> "none", names |-> <<>>]
  ELSE
    LET first == SubNames(prefix, Head(subspecs)) IN
      IF first.err # "none" THEN first
      ELSE LET rest == SubspecsNames(prefix, Tail(subspecs)) IN
             IF rest.err # "none" THEN rest
             ELSE [err |-> "none", names |-> first.names \o rest.names]

\* the names of one node_spec: the body of the loop of parse_node_names
SpecNames(node_spec) ==
  IF ~Contains(node_spec, "[") THEN [err |-> "none", names |-> <<node_spec>>]
  ELSE
    LET head == IndexOf(node_spec, "[")
        tail == IndexOf(node_spec, "]")
    IN IF tail = 0 THEN [err |-> "ValueError", names |-> <<>>]
       ELSE SubspecsNames(SubSeq(node_spec, 1, head - 1),
                          StrSplit(SubSeq(node_spec, head + 1, tail - 1), ","))

RECURSIVE SpecsNames(_)
SpecsNames(node_specs) ==
  IF node_specs = <<>> THEN [err |-> "none", names |-> <<>>]
  ELSE
    LET first == SpecNames(Head(node_specs)) IN
      IF first.err # "none" THEN first
      ELSE LET rest == SpecsNames(Tail(node_specs)) IN
             IF rest.err # "none" THEN rest
             ELSE [err |-> "none", names |-> first.names \o rest.names]

parse_node_names(str) ==
  LET node_specs == split_node_str(str) IN
    IF node_specs.err # "none" THEN [err |-> node_specs.err, names |-> <<>>]
    ELSE SpecsNames(node_specs.specs)

\* ------------------------------------------------------------ input sets
N1 == <<"n", "1">>

N2 == <<"n", "2">>

Nodes == {N1, N2}

Types == {"a", "b"}

Users == {"alice", "bob"}

StateNames == {"idle", "drain"}

\* the node lists of the squeue rows: 'n1', 'n2', 'n[1-2]'
NodeStrs == {N1, N2, <<"n", "[", "1", "-", "2", "]">>}

\* number of colon-separated fields of a row's tres-per-node token
TokenLens == {2, 3}

\* the GPU types of the specs of one node, in list order
TypeLists == UNION {[1..k -> Types] : k \in 0..MaxSpecs}

\* inventories: n1 with any list, n2 absent or with at most one spec,
\* every spec of an inventory with the same count
Inventories ==
  UNION {{[n \in S |-> [i \in 1..Len(tl[n]) |-> [type |-> tl[n][i], count |-> c]]] :
            tl \in {f \in [S -> TypeLists] : N2 \in S => Len(f[N2]) <= 1},
            c \in 1..MaxInv} : S \in {{N1}, {N1, N2}}}

\* sinfo reports a state for both nodes, or has no row for n2
StateMaps == [Nodes -> StateNames] \cup {[n \in {N1} |-> "idle"]}

\* a row of squeue: ntokens is len(row.split()), gpu is
\* tokens[0].startswith("gpu"), toklen is len(gpu_count_tokens)
GpuRows ==
  [ntokens : {3}, gpu : {TRUE}, toklen : TokenLens, type : Types,
   num_gpus : 1..MaxAlloc, node_str : NodeStrs, user : Users]

\* a pending job (no node list) and a job without GPUs
OtherRows ==
  {[ntokens |-> 2, gpu |-> TRUE, toklen |-> 2, type |-> "a", num_gpus |-> 1,
    node_str |-> <<>>, user |-> "alice"],
   [ntokens |-> 3, gpu |-> FALSE, toklen |-> 2, type |-> "a", num_gpus |-> 1,
    node_str |-> N1, user |-> "alice"]}

NoRow ==
  [ntokens |-> 0, gpu |-> FALSE, toklen |-> 0, type |-> "a", num_gpus |-> 0,
   node_str |-> <<>>, user |-> "alice"]

\* ------------------------------------------------------------ dict helpers
EmptyMap == [x \in {} |-> 0]

Put(f, k, v) == [x \in (DOMAIN f) \cup {k} |-> IF x = k THEN v ELSE f[x]]

\* the list of spec values a dict d holds for node n
SpecsOf(d, h, n) == [i \in 1..Len(d[n]) |-> h[d[n][i]]]

\* [x["type"] for x in d[n]]
TypesOf(d, h, n) == [i \in 1..Len(d[n]) |-> h[d[n][i]].type]

\* the dict as a value: node name -> list of {"type", "count"}
Deref(d, h) == [n \in DOMAIN d |-> SpecsOf(d, h, n)]

\* states.get(key, "down")
StateOf(key) == IF key \in DOMAIN states THEN states[key] ELSE "down"

\* {key: val for key, val in resources.items()
\*  if states.get(key, "down") not in INACCESSIBLE}: the values are the very
\* lists (and spec objects) of resources
Accessible(d) == [n \in {k \in DOMAIN d : StateOf(k) \notin INACCESSIBLE} |-> d[n]]

\* ---------------------------------------------------------------- gpu_usage
\* gpu_type after the if/elif on len(gpu_count_tokens): neither branch
\* assigns for another length
TokenType(toklen, type, prev) ==
  IF toklen = 2 THEN "None" ELSE IF toklen = 3 THEN type ELSE prev

\* lines 352-356: add num_gpus to usage[user][gpu_type][node_name]
AccumulateReset(u, user, gt, node_name, num_gpus) ==
  LET key == <<user, gt, node_name>>
      others == {k \in DOMAIN u : ~(k[1] = user /\ k[2] = gt)}
  IN [k \in others \cup {key} |-> IF k = key THEN num_gpus ELSE u[k]]

Accumulate(u, user, gt, node_name, num_gpus) ==
  LET key == <<user, gt, node_name>> IN
    IF \E k \in DOMAIN u : k[1] = user /\ k[2] = gt
      THEN \* gpu_type in usage[user]: += on the defaultdict(lambda: 0)
           Put(u, key, (IF key \in DOMAIN u THEN u[key] ELSE 0) + num_gpus)
      ELSE \* usage[user][gpu_type] = defaultdict(lambda: 0), then +=
           LET others == {k \in DOMAIN u : ~(k[1] = user /\ k[2] = gt)} IN
             [k \in others \cup {key} |-> IF k = key THEN num_gpus ELSE u[k]]

Raise(st, e, line) == [st EXCEPT !.err = e, !.errline = line]

\* lines 342-356: the loop over node_names for one row r; pick is the index
\* random.choice draws; st carries gpu_type, usage, warnings, rowlog
RECURSIVE NodeLoop(_, _, _, _)
NodeLoop(node_names, r, pick, st) ==
  IF node_names = <<>> \/ st.err # "none" \/ ~st.valid THEN st
  ELSE
    LET node_name == Head(node_names) IN
      IF node_name \notin DOMAIN res THEN Raise(st, "KeyError", 343)
      ELSE
        LET node_gpu_types == TypesOf(res, heap, node_name)
            guess == st.gpu_type = "None" /\ Len(node_gpu_types) # 1
            gt == IF st.gpu_type # "None" THEN st.gpu_type
                  ELSE IF Len(node_gpu_types) = 1 THEN node_gpu_types[1]
                  ELSE IF pick <= Len(node_gpu_types) THEN node_gpu_types[pick]
                  ELSE "None"
        IN IF st.gpu_type = "unbound" THEN Raise(st, "UnboundLocalError", 344)
           ELSE IF guess /\ node_gpu_types = <<>> THEN Raise(st, "IndexError", 346)
           ELSE IF guess /\ pick > Len(node_gpu_types) THEN [st EXCEPT !.valid = FALSE]
           ELSE NodeLoop(Tail(node_names), r, pick,
                  [st EXCEPT
                     !.gpu_type = gt,
                     !.warnings = IF guess THEN @ \cup {<<r.user, node_name>>} ELSE @,
                     !.usage = Accumulate(@, r.user, gt, node_name, r.num_gpus),
                     !.rowlog = @ (+) SetToBag({[user |-> r.user, type |-> gt,
                                                 node |-> node_name,
                                                 count |-> r.num_gpus,
                                                 typed |-> r.toklen # 2,
                                                 guessed |-> guess]})])

\* lines 334-356: one row that is not skipped
RowResult(r, pick) ==
  LET names == parse_node_names(r.node_str)
      st == [gpu_type |-> TokenType(r.toklen, r.type, gpu_type), usage |-> usage,
             warnings |-> warnings, rowlog |-> rowlog, err |-> "none",
             errline |-> 0, valid |-> TRUE]
  IN IF names.err # "none" THEN Raise(st, names.err, 341)
     ELSE NodeLoop(names.names, r, pick, st)

\* ---------------------------------------------------------------- available
\* line 405
DecrementNoFloor(count, user_gpu_count) == count - user_gpu_count

DecrementOnce(count, user_gpu_count) == Max(count - 1, 0)

Decrement(count, user_gpu_count) == Max(count - user_gpu_count, 0)

\* resource_by_type: gpu type -> sum of the counts of all specs of that type
RECURSIVE SumCounts(_, _)
SumCounts(h, refs) ==
  IF refs = {} THEN 0
  ELSE LET r == CHOOSE x \in refs : TRUE IN h[r].count + SumCounts(h, refs \ {r})

RefsOf(d) == UNION {{d[n][i] : i \in 1..Len(d[n])} : n \in DOMAIN d}

resource_by_type(d, h) ==
  [t \in {h[r].type : r \in RefsOf(d)} |->
     SumCounts(h, {r \in RefsOf(d) : h[r].type = t})]

\* -------------------------------------------------------- a run of available
\* resources and states are what lines 393-396 leave: the arguments, or the
\* result of the queries when an argument is empty.  A list may be empty: an
\* earlier gpu_usage(resources) on the defaultdict leaves [] for a node it
\* looked up and did not know.
ParseIdle ==
  /\ node_str = <<>>
  /\ atoms = 0
  /\ specs = split_node_str(<<>>)
  /\ parsed = parse_node_names(<<>>)

Init ==
  /\ ParseIdle
  /\ \E inv \in Inventories :
       /\ given = inv
       /\ resources = [n \in DOMAIN inv |-> [i \in 1..Len(inv[n]) |-> <<n, i>>]]
       /\ heap = [ref \in UNION {{<<n, i>> : i \in 1..Len(inv[n])} : n \in DOMAIN inv}
                    |-> inv[ref[1]][ref[2]]]
  /\ states \in StateMaps
  /\ pc = "start"
  /\ err = "none"
  /\ errline = 0
  /\ res = EmptyMap
  /\ usage = EmptyMap
  /\ gpu_type = "unbound"
  /\ nrows = 0
  /\ warnings = {}
  /\ pending = {}
  /\ by_type = EmptyMap
  /\ rowlog = EmptyBag
  /\ failed = NoRow

\* lines 397-399: build res and enter gpu_usage(resources=res)
Filter ==
  /\ pc = "start"
  /\ res' = Accessible(resources)
  /\ pc' = "rows"
  /\ UNCHANGED <<parseVars, err, errline, heap, resources, states, usage, gpu_type,
                 nrows, warnings, pending, by_type, given, rowlog, failed>>

\* lines 329-333: a row of a pending or non-GPU job is skipped
SkipRow ==
  /\ pc = "rows"
  /\ nrows < MaxRows
  /\ \E r \in OtherRows : r.ntokens < 3 \/ ~r.gpu
  /\ nrows' = nrows + 1
  /\ UNCHANGED <<parseVars, pc, err, errline, heap, resources, states, res, usage,
                 gpu_type, warnings, pending, by_type, given, rowlog, failed>>

\* lines 329-356: one GPU job row, with the whole loop over its nodes.  An
\* exception leaves available(): its locals and those of gpu_usage are gone.
UsageRow ==
  /\ pc = "rows"
  /\ nrows < MaxRows
  /\ \E r \in GpuRows, pick \in 1..MaxSpecs :
       LET out == RowResult(r, pick) IN
         /\ out.valid
         /\ IF out.err = "none"
              THEN /\ gpu_type' = out.gpu_type
                   /\ usage' = out.usage
                   /\ warnings' = out.warnings
                   /\ rowlog' = out.rowlog
                   /\ nrows' = nrows + 1
                   /\ UNCHANGED <<pc, err, errline, res, failed>>
              ELSE /\ pc' = "raised"
                   /\ err' = out.err
                   /\ errline' = out.errline
                   /\ failed' = r
                   /\ gpu_type' = "unbound"
                   /\ usage' = EmptyMap
                   /\ res' = EmptyMap
                   /\ warnings' = {}
                   /\ rowlog' = EmptyBag
                   /\ nrows' = 0
  /\ UNCHANGED <<parseVars, heap, resources, states, pending, by_type, given>>

\* line 357 and line 400: gpu_usage returns, the loops over usage begin
EndRows ==
  /\ pc = "rows"
  /\ pending' = DOMAIN usage
  /\ pc' = "apply"
  /\ gpu_type' = "unbound"
  /\ warnings' = {}
  /\ rowlog' = EmptyBag
  /\ nrows' = 0
  /\ UNCHANGED <<parseVars, err, errline, heap, resources, states, res, usage,
                 by_type, given, failed>>

\* lines 402-406: one (user, gpu_type, node_name) entry of usage.  Python
\* walks the entries in insertion order; every order is allowed here.
Apply ==
  /\ pc = "apply"
  /\ \E key \in pending :
       LET gt == key[2]
           node_name == key[3]
       IN IF node_name \notin DOMAIN res
            THEN /\ pc' = "raised" /\ err' = "KeyError" /\ errline' = 403
                 /\ usage' = EmptyMap /\ res' = EmptyMap /\ pending' = {}
                 /\ UNCHANGED heap
          ELSE IF ~Contains(TypesOf(res, heap, node_name), gt)
            THEN /\ pc' = "raised" /\ err' = "ValueError" /\ errline' = 403
                 /\ usage' = EmptyMap /\ res' = EmptyMap /\ pending' = {}
                 /\ UNCHANGED heap
          ELSE
            LET resource_idx == IndexOf(TypesOf(res, heap, node_name), gt)
                ref == res[node_name][resource_idx]
            IN /\ heap' = [heap EXCEPT ![ref].count = Decrement(@, usage[key])]
               /\ pending' = pending \ {key}
               /\ UNCHANGED <<pc, err, errline, usage, res>>
  /\ UNCHANGED <<parseVars, resources, states, gpu_type, nrows, warnings,
                 by_type, given, rowlog, failed>>

\* lines 407-411: the summary by type
Finish ==
  /\ pc = "apply"
  /\ pending = {}
  /\ by_type' = resource_by_type(res, heap)
  /\ pc' = "done"
  /\ UNCHANGED <<parseVars, err, errline, heap, resources, states, res, usage,
                 gpu_type, nrows, warnings, pending, given, rowlog, failed>>

Next == Filter \/ SkipRow \/ UsageRow \/ EndRows \/ Apply \/ Finish

Spec == Init /\ [][Next]_vars

\* ------------------------------------------------------- the parser's runs
\* available() is not running
AvailIdle ==
  /\ pc = "idle"
  /\ err = "none"
  /\ errline = 0
  /\ heap = EmptyMap
  /\ resources = EmptyMap
  /\ states = EmptyMap
  /\ res = EmptyMap
  /\ usage = EmptyMap
  /\ gpu_type = "unbound"
  /\ nrows = 0
  /\ warnings = {}
  /\ pending = {}
  /\ by_type = EmptyMap
  /\ given = EmptyMap
  /\ rowlog = EmptyBag
  /\ failed = NoRow

ParseInit == ParseIdle /\ AvailIdle

\* the parser is handed the previous expression extended by one atom
ParseNodeStr ==
  /\ atoms < MaxAtoms
  /\ \E a \in Atoms :
       /\ node_str' = node_str \o a
       /\ atoms' = atoms + 1
       /\ specs' = split_node_str(node_str \o a)
       /\ parsed' = parse_node_names(node_str \o a)
  /\ UNCHANGED availVars

ParseNext == ParseNodeStr

SpecParse == ParseInit /\ [][ParseNext]_vars

\* ------------------------------------------- the expansion the grammar names
\* position of the k-th smallest element of P; 0 before the first, past after
\* the last
KthOf(P, k, past) ==
  IF k = 0 THEN 0
  ELSE IF k > Cardinality(P) THEN past
  ELSE CHOOSE p \in P : Cardinality({q \in P : q < p}) = k - 1

\* the substrings of s between the separator positions P
PiecesAt(s, P) ==
  [k \in 1..(Cardinality(P) + 1) |->
     SubSeq(s, KthOf(P, k - 1, Len(s) + 1) + 1, KthOf(P, k, Len(s) + 1) - 1)]

CommasOf(s) == {i \in 1..Len(s) : s[i] = ","}

BracketDepth(s, i) ==
  Cardinality({j \in 1..i : s[j] = "["}) - Cardinality({j \in 1..i : s[j] = "]"})

TopCommas(s) == {i \in CommasOf(s) : BracketDepth(s, i) = 0}

\* depth goes negative somewhere, or ends non-zero
Unbalanced(s) ==
  \/ \E i \in 1..Len(s) : BracketDepth(s, i) < 0
  \/ BracketDepth(s, Len(s)) # 0

IsDigits(s) == s # <<>> /\ \A i \in 1..Len(s) : s[i] \in DigitChars

\* no bracket, comma or blank
IsPlain(s) == \A i \in 1..Len(s) : s[i] \notin {"[", "]", ",", " "}

IsRange(sub) ==
  /\ Cardinality({i \in 1..Len(sub) : sub[i] = "-"}) = 1
  /\ LET k == CHOOSE i \in 1..Len(sub) : sub[i] = "-" IN
       IsDigits(SubSeq(sub, 1, k - 1)) /\ IsDigits(SubSeq(sub, k + 1, Len(sub)))

IsLiteral(sub) == sub # <<>> /\ IsPlain(sub) /\ ~Contains(sub, "-")

IsBracketed(spec) ==
  /\ Len(spec) >= 2
  /\ spec[Len(spec)] = "]"
  /\ \E h \in 1..(Len(spec) - 1) :
       /\ spec[h] = "["
       /\ IsPlain(SubSeq(spec, 1, h - 1))
       /\ \A i \in (h + 1)..(Len(spec) - 1) : spec[i] \notin {"[", "]", " "}

BodyOf(spec) ==
  LET h == CHOOSE i \in 1..Len(spec) : spec[i] = "[" IN SubSeq(spec, h + 1, Len(spec) - 1)

PrefixOf(spec) ==
  LET h == CHOOSE i \in 1..Len(spec) : spec[i] = "[" IN SubSeq(spec, 1, h - 1)

SubspecsOf(spec) == PiecesAt(BodyOf(spec), CommasOf(BodyOf(spec)))

WellFormedSpec(spec) ==
  \/ spec # <<>> /\ IsPlain(spec)
  \/ /\ IsBracketed(spec)
     /\ \A k \in 1..Len(SubspecsOf(spec)) :
          IsLiteral(SubspecsOf(spec)[k]) \/ IsRange(SubspecsOf(spec)[k])

WellFormed(expr) ==
  \A k \in 1..Len(PiecesAt(expr, TopCommas(expr))) :
    WellFormedSpec(PiecesAt(expr, TopCommas(expr))[k])

RECURSIVE Flatten(_)
Flatten(ss) == IF ss = <<>> THEN <<>> ELSE Head(ss) \o Flatten(Tail(ss))

NumeralValue(d) ==
  LET RECURSIVE Sum(_)
      Sum(i) == IF i = 0 THEN 0 ELSE DigitVal(d[i]) * 10 ^ (Len(d) - i) + Sum(i - 1)
  IN Sum(Len(d))

\* x written in decimal, zero-padded on the left to width w
ZeroPad(x, w) ==
  LET n == CHOOSE m \in 1..9 : x < 10 ^ m /\ (m = 1 \/ x >= 10 ^ (m - 1))
      L == Max(w, n)
  IN [i \in 1..L |-> Digits[((x \div 10 ^ (L - i)) % 10) + 1]]

ExpandSub(prefix, sub) ==
  IF ~Contains(sub, "-") THEN <<prefix \o sub>>
  ELSE
    LET k == CHOOSE i \in 1..Len(sub) : sub[i] = "-"
        start == SubSeq(sub, 1, k - 1)
        lo == NumeralValue(start)
        hi == NumeralValue(SubSeq(sub, k + 1, Len(sub)))
    IN [x \in 1..Max(hi - lo + 1, 0) |-> prefix \o ZeroPad(lo + x - 1, Len(start))]

ExpandNodeSpec(spec) ==
  IF ~Contains(spec, "[") THEN <<spec>>
  ELSE Flatten([k \in 1..Len(SubspecsOf(spec)) |->
                  ExpandSub(PrefixOf(spec), SubspecsOf(spec)[k])])

Expansion(expr) ==
  LET tops == PiecesAt(expr, TopCommas(expr)) IN
    Flatten([k \in 1..Len(tops) |-> ExpandNodeSpec(tops[k])])

\* C5: for every well-formed node-range expression parse_node_names returns
\* normally, and its names are the concatenation, in order and with
\* duplicates kept, of the expansion of each top-level spec: a bare name is
\* itself, a literal subspec gives prefix+subspec, start-end gives prefix + x
\* zero-padded to len(start) for x from int(start) to int(end) ascending.
ParseIsExpansion ==
  WellFormed(node_str) =>
    parsed.err = "none" /\ parsed.names = Expansion(node_str)

\* '[01-1]' gives ['01'], 'n,[1]' gives ['n', '1'], '[0-1]' gives ['0', '1']
ParseIsExpansionWitness ==
  /\ WellFormed(node_str)
  /\ \/ node_str = <<"[", "0", "1", "-", "1", "]">> /\ parsed.names = <<<<"0", "1">>>>
     \/ node_str = <<"n", ",", "[", "1", "]">> /\ parsed.names = <<<<"n">>, <<"1">>>>

\* C3: every expression with unbalanced brackets is rejected by
\* split_node_str and by parse_node_names: neither returns a list.
UnbalancedRejected ==
  Unbalanced(node_str) => specs.err # "none" /\ parsed.err # "none"

\* a spec 'prefix[]'
EmptyBody(spec) == IsBracketed(spec) /\ BodyOf(spec) = <<>>

EdgeExpansion(expr) ==
  LET tops == PiecesAt(expr, TopCommas(expr)) IN
    Flatten([k \in 1..Len(tops) |->
               IF EmptyBody(tops[k]) THEN <<>> ELSE ExpandNodeSpec(tops[k])])

\* C6: the empty expression gives no names; a spec 'prefix[]' contributes no
\* names while its neighbours expand normally; a range with start = end
\* gives exactly one name.
EdgeCases ==
  /\ node_str = <<>> => parsed.err = "none" /\ parsed.names = <<>>
  /\ LET tops == PiecesAt(node_str, TopCommas(node_str)) IN
       /\ \E k \in 1..Len(tops) : EmptyBody(tops[k])
       /\ \A k \in 1..Len(tops) : EmptyBody(tops[k]) \/ WellFormedSpec(tops[k])
       => parsed.err = "none" /\ parsed.names = EdgeExpansion(node_str)
  /\ \A d \in DigitChars :
       node_str = <<"[", d, "-", d, "]">> =>
         parsed.err = "none" /\ parsed.names = <<<<d>>>>

\* ------------------------------------------------------ gpu_usage, available
RECURSIVE SumOf(_, _)
SumOf(f, S) ==
  IF S = {} THEN 0
  ELSE LET x == CHOOSE y \in S : TRUE IN f[x] + SumOf(f, S \ {x})

\* the sum of the allocated counts of all users for (node, type) in usage
Allocated(n, t) == SumOf(usage, {k \in DOMAIN usage : k[2] = t /\ k[3] = n})

\* the distinct GPU types the accessible inventory holds for node n
DistinctTypes(n) ==
  IF n \in DOMAIN res THEN {heap[res[n][i]].type : i \in 1..Len(res[n])} ELSE {}

\* the spec of node n that available() locates for type t: the first one
Located(n, t) == IndexOf(TypesOf(res, heap, n), t)

\* C1: when available() has applied every entry of usage, the count of the
\* spec located for each (node, type) is max(inventory count - sum of the
\* allocated counts of all users for that (node, type), 0), in whatever
\* order the entries were applied.
FlooredOnce ==
  pc = "done" =>
    \A n \in DOMAIN res : \A t \in DistinctTypes(n) :
      heap[res[n][Located(n, t)]].count =
        Max(given[n][Located(n, t)].count - Allocated(n, t), 0)

\* two users hold the same (node, type), one of them less than the inventory
\* count, together more
FlooredOnceWitness ==
  /\ pc = "done"
  /\ \E n \in DOMAIN res : \E t \in DistinctTypes(n) :
       /\ \A u \in Users : <<u, t, n>> \in DOMAIN usage
       /\ \E u \in Users : usage[<<u, t, n>>] < given[n][Located(n, t)].count
       /\ Allocated(n, t) > given[n][Located(n, t)].count
       /\ heap[res[n][Located(n, t)]].count = 0

\* C2: the count of every GPU resource spec is >= 0 in every state, while
\* available() applies the decrements and at its end.
NeverNegative == \A ref \in DOMAIN heap : heap[ref].count >= 0

\* one applied entry allocates more than the inventory count: 0 is left
NeverNegativeWitness ==
  /\ pc \in {"apply", "done"}
  /\ \E key \in (DOMAIN usage) \ pending :
       /\ usage[key] > given[key[3]][Located(key[3], key[2])].count
       /\ heap[res[key[3]][Located(key[3], key[2])]].count = 0

\* C4: when available() returns, the inventory it was given holds the counts
\* it held at the call.
InventoryKept == pc = "done" => Deref(resources, heap) = given

\* C7: a row that omits the GPU type is recorded, for every node of its node
\* list that offers exactly one distinct type, under that node's type.
InferredPerNode ==
  \A e \in BagToSet(rowlog) :
    ~e.typed /\ Cardinality(DistinctTypes(e.node)) = 1 =>
      e.type \in DistinctTypes(e.node)

\* C8: a row that omits the GPU type on a node with zero or several distinct
\* types does not end the pass; the count goes under one of the node's types
\* and a warning is printed.
AmbiguousGuessed ==
  /\ ~(pc = "raised" /\ errline = 346 /\ failed.toklen = 2)
  /\ \A e \in BagToSet(rowlog) :
       ~e.typed /\ Cardinality(DistinctTypes(e.node)) # 1 =>
         e.type \in DistinctTypes(e.node) /\ <<e.user, e.node>> \in warnings

\* what the rows of the pass added for (user, type, node)
Added(u, t, n) ==
  LET es == {e \in BagToSet(rowlog) : e.user = u /\ e.type = t /\ e.node = n}
      weight == [e \in es |-> e.count * CopiesIn(e, rowlog)]
  IN SumOf(weight, es)

\* C9: after any sequence of rows, the count recorded for (user, type, node)
\* is the sum of the counts of the rows of that user that resolved to that
\* type and expanded to that node; there is an entry exactly when there is
\* such a row.
UsageIsSum ==
  pc = "rows" =>
    \A u \in Users, t \in Types, n \in Nodes :
      /\ <<u, t, n>> \in DOMAIN usage <=> Added(u, t, n) > 0
      /\ <<u, t, n>> \in DOMAIN usage => usage[<<u, t, n>>] = Added(u, t, n)

\* a second row added to (user, type, n1) while (user, type, n2) was there
UsageIsSumWitness ==
  /\ pc = "rows"
  /\ \E u \in Users, t \in Types :
       /\ <<u, t, N1>> \in DOMAIN usage
       /\ <<u, t, N2>> \in DOMAIN usage
       /\ usage[<<u, t, N1>>] > usage[<<u, t, N2>>]
       /\ BagCardinality(rowlog) = 3

\* C10: no row that names a node outside the accessible inventory ends
\* available() with a lookup failure.
NoLookupFailure == ~(pc = "raised" /\ err = "KeyError")

====
